---- MODULE Spec2Model ----
(***************************************************************************)
(* Model of the natural-language-to-SQL pipeline of sqlite-chatbot.        *)
(*                                                                         *)
(*   Spec    the LLM client (src/llm/gemini_api.py): one GeminiAPI object  *)
(*           with its key pool and rotation cursor, used by several caller *)
(*           threads (src/gradio_app.py keeps one module-level client for  *)
(*           every handler thread), together with the front-end step that  *)
(*           stores a reply in the shared chat history.                    *)
(*   SpecSingle  the same client driven by one caller thread.              *)
(*   SpecPool    the key pool alone: concurrent callers of _get_next_key.  *)
(*   SpecDB      the database gateway (src/database/connector.py):         *)
(*           execute_query on statement texts with comments and several    *)
(*           statements.                                                   *)
(*   SpecGate    the statements that reach the gateway from the front end  *)
(*           (src/utils/query_processor.py, src/app.py).                   *)
(*   SpecChat    one chat turn of the Streamlit front end (src/app.py).    *)
(*   SpecPrompt  the message list sent to the model                        *)
(*           (src/llm/prompt_builder.py).                                  *)
(*   SpecClean   GeminiAPI._clean_sql_query on statement texts.            *)
(*   SpecExtract GeminiAPI.extract_sql_from_response on reply texts.       *)
(*   SpecConn    the connections of one DatabaseConnector used by several  *)
(*           threads.                                                      *)
(*   SpecGradio  the chat handler of the Gradio front end                  *)
(*           (src/gradio_app.py).                                          *)
(*   SpecTurn    one query of the Streamlit front end from the LLM's reply *)
(*           text to the returned result (src/app.py).                     *)
(*   SpecSingleLive  SpecSingle with a caller whose call keeps running.    *)
(***************************************************************************)
EXTENDS Integers, Sequences, FiniteSets, TLC

(***************************************************************************)
(* Bounds of the model.                                                    *)
(***************************************************************************)
NumThreads == 2      \* caller threads that share the GeminiAPI object
NumKeys == 2         \* len(config.API_KEYS), the size of the key pool
MaxRequests == 3     \* generate_response calls made in all
NumContents == 2     \* distinct reply texts the server may send

Threads == 1..NumThreads
Contents == 1..NumContents

(***************************************************************************)
(* The key pool: config.API_KEYS after filtering, a list of distinct       *)
(* credentials.  Credential i of the list is written i (0-based).          *)
(***************************************************************************)
api_keys == [i \in 0..(NumKeys - 1) |-> i]

\* len(self.api_keys)
PoolSize == NumKeys

(***************************************************************************)
(* What one network attempt can produce (session.post, raise_for_status,   *)
(* response.json and the look-up of choices[0].message.content).           *)
(***************************************************************************)
FailureKinds ==
    { "no_choices",      \* JSON object without "choices"
      "empty_choices",   \* "choices": []
      "http_error",      \* non-2xx: raise_for_status raises HTTPError
      "timeout",         \* requests.exceptions.Timeout
      "bad_json",        \* response.json() raises JSONDecodeError
      "missing_key",     \* choices[0] lacks "message"/"content": KeyError
      "wrong_type" }     \* choices[0] or message is null/a string: TypeError

Responses ==
    [kind : {"ok"}, content : Contents]
      \cup [kind : FailureKinds, content : {0}]

NoResponse == [kind |-> "none", content |-> 0]

(***************************************************************************)
(* How the try statement of generate_response disposes of a reply:         *)
(*   "return"  the content is returned (line 94)                           *)
(*   "retry"   an error is appended and the loop goes on (lines 96-107)    *)
(*   "raise"   the exception is none of RequestException, KeyError,        *)
(*             JSONDecodeError: only the finally clause runs and the       *)
(*             exception leaves generate_response                          *)
(***************************************************************************)
Disposition(r) ==
    CASE r.kind = "ok" -> "return"
      [] r.kind \in {"no_choices", "empty_choices"} -> "retry"
      [] r.kind \in {"http_error", "timeout", "bad_json"} -> "retry"
      [] r.kind = "missing_key" -> "retry"
      [] r.kind = "wrong_type" -> "raise"

\* The value generate_response hands to its caller.
NoResult == [kind |-> "pending", content |-> 0]
ReturnedNone == [kind |-> "none", content |-> 0]
Raised == [kind |-> "raised", content |-> 0]
Returned(c) == [kind |-> "content", content |-> c]

VARIABLES
    current_key_index,   \* self.current_key_index, the rotation cursor
    lock,                \* self._lock: 0 when free, else the holding thread
    pc,                  \* where each thread is
    attempt,             \* the loop variable of generate_response (attempts started)
    api_key,             \* the local `key`/`api_key` of each thread
    next_index,          \* the value computed for the cursor, before it is stored
    current_request,     \* self._local.current_request of each thread
    errors,              \* the local list `errors`, as the attempt numbers recorded
    response,            \* the reply the network gave to the running attempt
    result,              \* what generate_response returned to the caller
    chat_history,        \* the front-end's shared chat_history: the requests whose replies were stored
    \* history variables, read by the properties only
    nsent,               \* network attempts made by the running call
    used,                \* credentials used by the running call
    start_index,         \* the cursor when the running call began
    foreign,             \* another thread advanced the cursor during the call
    nacquired,           \* _get_next_key calls that have taken the lock, modulo the pool size
    ticket,              \* the position of each thread's call in lock order, modulo the pool size
    ncompleted,          \* _get_next_key calls that have stored the cursor, modulo the pool size
    reqno,               \* the number of the request each thread is running
    nrequests,           \* requests issued so far
    last_done,           \* the highest request number that has completed
    overtaken,           \* the first request issued while this one was in Sending, else 0
    stale,               \* the reply arrived after such a newer request completed
    last_cancel          \* the thread whose cancel_current_request was the latest step, else 0

llm_vars == << current_key_index, lock, pc, attempt, api_key, next_index,
               current_request, errors, response, result, chat_history,
               nsent, used, start_index, foreign, nacquired, ticket,
               ncompleted, reqno, nrequests, last_done, overtaken, stale, last_cancel >>

(***************************************************************************)
(* The state of the database gateway (DatabaseConnector and its file).     *)
(***************************************************************************)
VARIABLES
    query,        \* the text given to execute_query
    ntokens,      \* the tokens it is made of
    phase,        \* "input" while the text is put together, "executed" after the call
    db_rows,      \* the database: the rows the table holds
    db_before,    \* the rows it held when the last call began
    nexec,        \* execute_query calls made
    outcome,      \* how the last call ended
    prior_error   \* the call before the last one reported an error

db_vars == << query, ntokens, phase, db_rows, db_before, nexec, outcome,
              prior_error >>

(***************************************************************************)
(* The way of a statement from the pipeline to the gateway                 *)
(* (QueryProcessor and the front-ends' execute_sql_directly).              *)
(***************************************************************************)
VARIABLES
    statement,         \* the statement text, as its words
    verdict,           \* what validate_query said of it, "unchecked" when not asked
    gateway_received,  \* the call DatabaseConnector.execute_query received, if any
    nstatements        \* statements the pipeline has dealt with

gate_vars == << statement, verdict, gateway_received, nstatements >>

(***************************************************************************)
(* One front-end session (src/app.py): st.session_state and the locals of  *)
(* the Send handler.                                                       *)
(***************************************************************************)
VARIABLES
    st_chat_history,   \* st.session_state.chat_history
    processing_query,  \* st.session_state.processing_query
    messages,          \* the list build_messages returned to the running invocation
    response_data,     \* what process_user_query returned
    chat_pc,           \* where the Send handler is
    nturns             \* queries sent so far

chat_vars == << st_chat_history, processing_query, messages, response_data,
                chat_pc, nturns >>

\* A caller of PromptBuilder.build_messages and what it was given back.
VARIABLES
    conversation_history,  \* the history the caller holds
    built                  \* the list build_messages returned, << >> before the call

prompt_vars == << conversation_history, built >>

\* GeminiAPI._clean_sql_query applied to the text in `query`.
VARIABLES
    sql_query,   \* _clean_sql_query(query)
    sql_twice    \* _clean_sql_query(sql_query)

clean_vars == << sql_query, sql_twice >>

\* GeminiAPI.extract_sql_from_response and the reply it is given.
VARIABLES
    response_text,   \* the LLM's reply
    extracted,       \* what extract_sql_from_response returned
    extract_done     \* the function has been called on response_text

extract_vars == << response_text, extracted, extract_done >>

\* One DatabaseConnector and the connections it has opened to its file.
VARIABLES
    local_conn,     \* self._local.conn of each thread: a connection, or NoConn
    connections,    \* each connection opened so far: is it open, are foreign keys enforced
    disconnected    \* the latest call on the connector was disconnect

conn_vars == << local_conn, connections, disconnected >>

\* The Gradio front-end (src/gradio_app.py): its globals and its chat box.
VARIABLES
    chatbot,              \* the value of the Chatbot component: the user message of each row
    gradio_chat_history,  \* the global chat_history: the raw reply of each stored entry
    gradio_messages,      \* the list process_query built for the LLM, << >> when none
    db_connector,         \* the global db_connector is set
    nqueries              \* queries sent so far

gradio_vars == << chatbot, gradio_chat_history, gradio_messages, db_connector,
                 nqueries >>

\* One query of the Streamlit front end followed from the LLM's reply text
\* to the result process_user_query returns (src/app.py).
VARIABLES
    reply_text,     \* the text generate_response returned for the query
    turn_pc,        \* "typing": the reply is being written; "returned"
    turn_result,    \* what process_user_query returned for the reply
    handed,         \* the statements handed to execute_sql_directly for it
    prior_no_sql,   \* the query before this one ended with no SQL extracted
    nreplies        \* replies processed so far

e2e_vars == << reply_text, turn_pc, turn_result, handed, prior_no_sql,
              nreplies >>

\* The state outside the LLM client and outside the database gateway.
pipe_vars == << gate_vars, chat_vars, prompt_vars, clean_vars, extract_vars,
               conn_vars, gradio_vars, e2e_vars >>

(***************************************************************************)
(* GeminiAPI.__init__: the cursor starts at 0, no thread has the attribute *)
(* current_request in its threading.local yet.                             *)
(***************************************************************************)
LlmInit ==
    /\ current_key_index = 0
    /\ lock = 0
    /\ pc = [t \in Threads |-> "idle"]
    /\ attempt = [t \in Threads |-> 0]
    /\ api_key = [t \in Threads |-> 0]
    /\ next_index = [t \in Threads |-> 0]
    /\ current_request = [t \in Threads |-> "unset"]
    /\ errors = [t \in Threads |-> << >>]
    /\ response = [t \in Threads |-> NoResponse]
    /\ result = [t \in Threads |-> NoResult]
    /\ chat_history = << >>
    /\ nsent = [t \in Threads |-> 0]
    /\ used = [t \in Threads |-> {}]
    /\ start_index = [t \in Threads |-> 0]
    /\ foreign = [t \in Threads |-> FALSE]
    /\ nacquired = 0
    /\ ticket = [t \in Threads |-> 0]
    /\ ncompleted = 0
    /\ reqno = [t \in Threads |-> 0]
    /\ nrequests = 0
    /\ last_done = 0
    /\ overtaken = [t \in Threads |-> 0]
    /\ stale = [t \in Threads |-> FALSE]
    /\ last_cancel = 0

\* hasattr(self._local, 'current_request') and self._local.current_request
HandleSet(t) == current_request[t] = "session"

\* A thread is inside generate_response.
InCall(t) == pc[t] \notin {"idle", "done"}

\* The thread is blocked in session.post: its request is in Sending.
Sending(t) == pc[t] = "wait"

(***************************************************************************)
(* generate_response, lines 54-62: clear a previous handle, start with an  *)
(* empty error list and enter the loop over range(len(self.api_keys)).     *)
(***************************************************************************)
generate_response(t) ==
    /\ pc[t] = "idle"
    /\ nrequests < MaxRequests
    /\ current_request' =
          [current_request EXCEPT ![t] = IF HandleSet(t) THEN "none" ELSE @]
    /\ errors' = [errors EXCEPT ![t] = << >>]
    /\ attempt' = [attempt EXCEPT ![t] = 0]
    /\ response' = [response EXCEPT ![t] = NoResponse]
    /\ result' = [result EXCEPT ![t] = NoResult]
    /\ pc' = [pc EXCEPT ![t] = "acquire"]
    /\ nsent' = [nsent EXCEPT ![t] = 0]
    /\ used' = [used EXCEPT ![t] = {}]
    /\ start_index' = [start_index EXCEPT ![t] = current_key_index]
    /\ foreign' = [foreign EXCEPT ![t] = FALSE]
    /\ nrequests' = nrequests + 1
    /\ reqno' = [reqno EXCEPT ![t] = nrequests + 1]
    /\ stale' = [stale EXCEPT ![t] = FALSE]
    /\ overtaken' = [u \in Threads |->
                        IF u = t THEN 0
                        ELSE IF Sending(u) /\ overtaken[u] = 0 THEN nrequests + 1
                        ELSE overtaken[u]]
    /\ last_cancel' = 0
    /\ UNCHANGED << current_key_index, lock, api_key, next_index, chat_history,
                    nacquired, ticket, ncompleted, last_done,
                    db_vars, pipe_vars >>

(***************************************************************************)
(* _get_next_key, lines 28-33.  `with self._lock` is entered when the lock *)
(* is free; the body reads the credential at the cursor, computes the next *)
(* cursor and stores it; leaving the block releases the lock.              *)
(***************************************************************************)
\* A _get_next_key without `with self._lock`: any thread enters at once.
LockFreeUnguarded == TRUE

LockFree == lock = 0

\* A rotation that forgets to advance the cursor.
NextIndexStuck(i) == i % PoolSize

NextIndex(i) == (i + 1) % PoolSize

lock_acquire(t) ==
    /\ pc[t] = "acquire"
    /\ LockFree
    /\ lock' = t
    /\ pc' = [pc EXCEPT ![t] = "read"]
    /\ nacquired' = (nacquired + 1) % PoolSize
    /\ ticket' = [ticket EXCEPT ![t] = nacquired]
    /\ last_cancel' = 0
    /\ UNCHANGED << current_key_index, attempt, api_key, next_index,
                    current_request, errors, response, result, chat_history,
                    nsent, used, start_index, foreign, ncompleted, reqno,
                    nrequests, last_done, overtaken, stale,
                    db_vars, pipe_vars >>

\* key = self.api_keys[self.current_key_index]
read_key(t) ==
    /\ pc[t] = "read"
    /\ api_key' = [api_key EXCEPT ![t] = api_keys[current_key_index]]
    /\ pc' = [pc EXCEPT ![t] = "calc"]
    /\ last_cancel' = 0
    /\ UNCHANGED << current_key_index, lock, attempt, next_index,
                    current_request, errors, response, result, chat_history,
                    nsent, used, start_index, foreign, nacquired, ticket,
                    ncompleted, reqno, nrequests, last_done, overtaken, stale,
                    db_vars, pipe_vars >>

\* the right-hand side (self.current_key_index + 1) % len(self.api_keys)
calc_index(t) ==
    /\ pc[t] = "calc"
    /\ next_index' = [next_index EXCEPT ![t] = NextIndex(current_key_index)]
    /\ pc' = [pc EXCEPT ![t] = "store"]
    /\ last_cancel' = 0
    /\ UNCHANGED << current_key_index, lock, attempt, api_key,
                    current_request, errors, response, result, chat_history,
                    nsent, used, start_index, foreign, nacquired, ticket,
                    ncompleted, reqno, nrequests, last_done, overtaken, stale,
                    db_vars, pipe_vars >>

\* the store to self.current_key_index, the release of the lock, return key
store_index(t) ==
    /\ pc[t] = "store"
    /\ current_key_index' = next_index[t]
    /\ next_index' = [next_index EXCEPT ![t] = 0]
    /\ lock' = 0
    /\ pc' = [pc EXCEPT ![t] = "send"]
    /\ ncompleted' = (ncompleted + 1) % PoolSize
    /\ foreign' = [u \in Threads |->
                      IF u # t /\ pc[u] # "idle" THEN TRUE ELSE foreign[u]]
    /\ last_cancel' = 0
    /\ UNCHANGED << attempt, api_key, current_request, errors, response,
                    result, chat_history, nsent, used, start_index, nacquired,
                    ticket, reqno, nrequests, last_done, overtaken, stale,
                    db_vars, pipe_vars >>

(***************************************************************************)
(* generate_response, lines 80-86: a new requests.Session becomes the      *)
(* thread's current request and the POST is sent with the credential.      *)
(***************************************************************************)
send_request(t) ==
    /\ pc[t] = "send"
    /\ current_request' = [current_request EXCEPT ![t] = "session"]
    /\ pc' = [pc EXCEPT ![t] = "wait"]
    /\ nsent' = [nsent EXCEPT ![t] = @ + 1]
    /\ used' = [used EXCEPT ![t] = @ \cup {api_key[t]}]
    /\ last_cancel' = 0
    /\ UNCHANGED << current_key_index, lock, attempt, api_key, next_index,
                    errors, response, result, chat_history, start_index,
                    foreign, nacquired, ticket, ncompleted, reqno, nrequests,
                    last_done, overtaken, stale,
                    db_vars, pipe_vars >>

\* session.post returns or raises: the server, the network or the timeout decide.
network_reply(t) ==
    /\ pc[t] = "wait"
    /\ \E r \in Responses : response' = [response EXCEPT ![t] = r]
    /\ pc' = [pc EXCEPT ![t] = "got"]
    /\ stale' = [stale EXCEPT ![t] = overtaken[t] # 0 /\ last_done >= overtaken[t]]
    /\ last_cancel' = 0
    /\ UNCHANGED << current_key_index, lock, attempt, api_key, next_index,
                    current_request, errors, result, chat_history, nsent,
                    used, start_index, foreign, nacquired, ticket, ncompleted,
                    reqno, nrequests, last_done, overtaken,
                    db_vars, pipe_vars >>

(***************************************************************************)
(* generate_response, lines 87-114: the rest of the try statement, its     *)
(* except clauses and its finally clause, the next turn of the loop and    *)
(* the return after the loop.  All of it is local to the thread.  The      *)
(* locals of the finished attempt (api_key, the reply) go out of use.      *)
(***************************************************************************)
handle_reply(t) ==
    /\ pc[t] = "got"
    /\ LET d == Disposition(response[t]) IN
         /\ current_request' = [current_request EXCEPT ![t] = "none"]
         /\ errors' = [errors EXCEPT ![t] =
                          IF d = "retry" THEN Append(@, attempt[t] + 1) ELSE @]
         /\ attempt' = [attempt EXCEPT ![t] = IF d = "retry" THEN @ + 1 ELSE @]
         /\ result' = [result EXCEPT ![t] =
                          CASE d = "return" -> Returned(response[t].content)
                            [] d = "raise" -> Raised
                            [] d = "retry" ->
                                 IF attempt[t] + 1 < PoolSize
                                 THEN NoResult ELSE ReturnedNone]
         /\ pc' = [pc EXCEPT ![t] =
                      IF d = "retry" /\ attempt[t] + 1 < PoolSize
                      THEN "acquire" ELSE "done"]
         /\ response' = [response EXCEPT ![t] =
                            IF d = "retry" /\ attempt[t] + 1 < PoolSize
                            THEN NoResponse ELSE @]
    /\ api_key' = [api_key EXCEPT ![t] = 0]
    /\ ticket' = [ticket EXCEPT ![t] = 0]
    /\ last_cancel' = 0
    /\ UNCHANGED << current_key_index, lock, next_index, chat_history, nsent,
                    used, start_index, foreign, nacquired, ncompleted, reqno,
                    nrequests, last_done, overtaken, stale,
                    db_vars, pipe_vars >>

(***************************************************************************)
(* The caller's use of the returned value (gradio_app.process_query, lines *)
(* 102-140; app.main, lines 398-428): a reply whose SQL was extracted and  *)
(* run is stored in the shared chat history, any other outcome is only     *)
(* shown.  The call's locals are gone when the handler returns.            *)
(***************************************************************************)
process_query_finish(t) ==
    /\ pc[t] = "done"
    /\ \E stored \in BOOLEAN :
          chat_history' =
             IF result[t].kind = "content" /\ stored
             THEN Append(chat_history, [req |-> reqno[t], late |-> stale[t]])
             ELSE chat_history
    /\ pc' = [pc EXCEPT ![t] = "idle"]
    /\ last_done' = IF reqno[t] > last_done THEN reqno[t] ELSE last_done
    /\ errors' = [errors EXCEPT ![t] = << >>]
    /\ attempt' = [attempt EXCEPT ![t] = 0]
    /\ response' = [response EXCEPT ![t] = NoResponse]
    /\ result' = [result EXCEPT ![t] = NoResult]
    /\ nsent' = [nsent EXCEPT ![t] = 0]
    /\ used' = [used EXCEPT ![t] = {}]
    /\ start_index' = [start_index EXCEPT ![t] = 0]
    /\ foreign' = [foreign EXCEPT ![t] = FALSE]
    /\ stale' = [stale EXCEPT ![t] = FALSE]
    /\ overtaken' = [overtaken EXCEPT ![t] = 0]
    /\ reqno' = [reqno EXCEPT ![t] = 0]
    /\ last_cancel' = 0
    /\ UNCHANGED << current_key_index, lock, api_key, next_index,
                    current_request, nacquired, ticket, ncompleted, nrequests,
                    db_vars, pipe_vars >>

(***************************************************************************)
(* cancel_current_request, lines 203-207, called by a thread that is not   *)
(* inside generate_response.  It looks at the caller's own threading.local *)
(* attribute only.                                                         *)
(***************************************************************************)
cancel_current_request(t) ==
    /\ pc[t] = "idle"
    /\ current_request' =
          [current_request EXCEPT ![t] = IF HandleSet(t) THEN "none" ELSE @]
    /\ last_cancel' = t
    /\ UNCHANGED << current_key_index, lock, pc, attempt, api_key, next_index,
                    errors, response, result, chat_history, nsent, used,
                    start_index, foreign, nacquired, ticket, ncompleted,
                    reqno, nrequests, last_done, overtaken, stale,
                    db_vars, pipe_vars >>

(***************************************************************************)
(* A caller of _get_next_key alone: generate_response's line 63 without    *)
(* the request that follows it.  Any thread may call at any time.          *)
(***************************************************************************)
get_next_key_call(t) ==
    /\ pc[t] = "idle"
    /\ pc' = [pc EXCEPT ![t] = "acquire"]
    /\ UNCHANGED << current_key_index, lock, attempt, api_key, next_index,
                    current_request, errors, response, result, chat_history,
                    nsent, used, start_index, foreign, nacquired, ticket,
                    ncompleted, reqno, nrequests, last_done, overtaken, stale,
                    last_cancel,
                    db_vars, pipe_vars >>

get_next_key_return(t) ==
    /\ pc[t] = "send"
    /\ pc' = [pc EXCEPT ![t] = "idle"]
    /\ api_key' = [api_key EXCEPT ![t] = 0]
    /\ ticket' = [ticket EXCEPT ![t] = 0]
    /\ foreign' = [foreign EXCEPT ![t] = FALSE]
    /\ UNCHANGED << current_key_index, lock, attempt, next_index,
                    current_request, errors, response, result, chat_history,
                    nsent, used, start_index, nacquired, ncompleted, reqno,
                    nrequests, last_done, overtaken, stale, last_cancel,
                    db_vars, pipe_vars >>

\* One GeminiAPI object used by every thread.
LlmNext ==
    \E t \in Threads :
       \/ generate_response(t)
       \/ lock_acquire(t)
       \/ read_key(t)
       \/ calc_index(t)
       \/ store_index(t)
       \/ send_request(t)
       \/ network_reply(t)
       \/ handle_reply(t)
       \/ process_query_finish(t)
       \/ cancel_current_request(t)

\* The same object driven by a single caller thread.
SingleNext ==
    \/ generate_response(1)
    \/ lock_acquire(1)
    \/ read_key(1)
    \/ calc_index(1)
    \/ store_index(1)
    \/ send_request(1)
    \/ network_reply(1)
    \/ handle_reply(1)
    \/ process_query_finish(1)
    \/ cancel_current_request(1)

\* The key pool alone, under concurrent callers of _get_next_key.
PoolNext ==
    \E t \in Threads :
       \/ get_next_key_call(t)
       \/ lock_acquire(t)
       \/ read_key(t)
       \/ calc_index(t)
       \/ store_index(t)
       \/ get_next_key_return(t)

(***************************************************************************)
(* The database gateway (src/database/connector.py).  A statement text is  *)
(* a sequence of characters.  One letter stands for one whole well-formed  *)
(* statement body: "a" a row-inserting write statement, "S" a SELECT ...,  *)
(* "W" a WITH ... SELECT, "P" a PRAGMA, "f" a write statement that keeps   *)
(* the row it has added when a later row of it breaks a constraint (INSERT *)
(* OR FAIL ... VALUES (new), (existing)); the other characters are the     *)
(* ones the gateway's text processing looks at.                            *)
(***************************************************************************)
MaxTokens == 4       \* tokens an input text is made of
MaxExec == 2         \* execute_query calls in a session

Whitespace == {"\n"}
Words == {"a", "S", "W", "P", "f"}

\* What an input text is put together from.
Tokens ==
    { <<"a">>, <<"S">>, <<"W">>, <<"P">>, <<"f">>, <<";">>, <<"\n">>,
      <<"-", "-">>, <<"/", "*">>, <<"*", "/">> }

RECURSIVE LineEnd(_, _)
\* The position of the first newline at or after i, Len(s) + 1 when none.
LineEnd(s, i) ==
    IF i > Len(s) THEN i
    ELSE IF s[i] = "\n" THEN i
    ELSE LineEnd(s, i + 1)

RECURSIVE BlockClose(_, _)
\* The position of the first "*/" that starts at or after j, 0 when none.
BlockClose(s, j) ==
    IF j + 1 > Len(s) THEN 0
    ELSE IF s[j] = "*" /\ s[j + 1] = "/" THEN j
    ELSE BlockClose(s, j + 1)

RECURSIVE SubLineFrom(_, _)
SubLineFrom(s, i) ==
    IF i > Len(s) THEN << >>
    ELSE IF s[i] = "-" /\ i + 1 <= Len(s) /\ s[i + 1] = "-"
         THEN SubLineFrom(s, LineEnd(s, i))
         ELSE << s[i] >> \o SubLineFrom(s, i + 1)

\* re.sub(r'--.*$', '', query, flags=re.MULTILINE)
StripLineComments(s) == SubLineFrom(s, 1)

RECURSIVE SubBlockFrom(_, _)
SubBlockFrom(s, i) ==
    IF i > Len(s) THEN << >>
    ELSE IF /\ s[i] = "/"
            /\ i + 1 <= Len(s)
            /\ s[i + 1] = "*"
            /\ BlockClose(s, i + 2) # 0
         THEN SubBlockFrom(s, BlockClose(s, i + 2) + 2)
         ELSE << s[i] >> \o SubBlockFrom(s, i + 1)

\* re.sub(r'/\*.*?\*/', '', query, flags=re.DOTALL)
StripBlockComments(s) == SubBlockFrom(s, 1)

RECURSIVE LStrip(_)
LStrip(s) ==
    IF s = << >> THEN s
    ELSE IF Head(s) \in Whitespace THEN LStrip(Tail(s))
    ELSE s

RECURSIVE RStrip(_)
RStrip(s) ==
    IF s = << >> THEN s
    ELSE IF s[Len(s)] \in Whitespace THEN RStrip(SubSeq(s, 1, Len(s) - 1))
    ELSE s

\* str.strip()
Strip(s) == LStrip(RStrip(s))

\* ";" in s, that is len(s.split(';')) > 1
HasSemicolon(s) == \E i \in 1..Len(s) : s[i] = ";"

RECURSIVE UpToSemicolon(_)
\* s.split(';')[0]
UpToSemicolon(s) ==
    IF s = << >> THEN s
    ELSE IF Head(s) = ";" THEN << >>
    ELSE << Head(s) >> \o UpToSemicolon(Tail(s))

\* execute_query, lines 68-79: the text that is handed to the engine.
PreparedQuery(text) ==
    LET stripped == Strip(StripBlockComments(StripLineComments(text)))
    IN  IF HasSemicolon(stripped)
        THEN Strip(UpToSemicolon(stripped)) \o << ";" >>
        ELSE stripped

\* query.lower().strip().startswith("pragma")
IsPragma(q) == Strip(q) # << >> /\ Head(Strip(q)) = "P"

\* query.lower().strip().startswith("select") or ...startswith("with")
IsSelect(q) == Strip(q) # << >> /\ Head(Strip(q)) \in {"S", "W"}

(***************************************************************************)
(* The engine behind sqlite3's cursor.execute.  SQLite skips white space,  *)
(* a "--" comment up to the end of the line and a "/*" comment up to the   *)
(* first "*/" that starts two characters later or further on (up to the    *)
(* end of the text when there is none; a "/*" that ends the text is the    *)
(* two operators "/" and "*").  A statement ends at ";".                   *)
(***************************************************************************)
RECURSIVE SqliteLexFrom(_, _)
SqliteLexFrom(s, i) ==
    IF i > Len(s) THEN << >>
    ELSE IF s[i] \in Whitespace THEN SqliteLexFrom(s, i + 1)
    ELSE IF s[i] = "-" /\ i + 1 <= Len(s) /\ s[i + 1] = "-"
         THEN SqliteLexFrom(s, LineEnd(s, i))
    ELSE IF s[i] = "/" /\ i + 2 <= Len(s) /\ s[i + 1] = "*"
         THEN IF BlockClose(s, i + 2) = 0 THEN << >>
              ELSE SqliteLexFrom(s, BlockClose(s, i + 2) + 2)
    ELSE << s[i] >> \o SqliteLexFrom(s, i + 1)

SqliteLex(s) == SqliteLexFrom(s, 1)

RECURSIVE CommentsClosedFrom(_, _)
\* Every block comment of the text, as SQLite reads it, is closed by a "*/".
CommentsClosedFrom(s, i) ==
    IF i > Len(s) THEN TRUE
    ELSE IF s[i] = "-" /\ i + 1 <= Len(s) /\ s[i + 1] = "-"
         THEN CommentsClosedFrom(s, LineEnd(s, i))
    ELSE IF s[i] = "/" /\ i + 1 <= Len(s) /\ s[i + 1] = "*"
         THEN /\ BlockClose(s, i + 2) # 0
              /\ CommentsClosedFrom(s, BlockClose(s, i + 2) + 2)
    ELSE CommentsClosedFrom(s, i + 1)

CommentsClosed(s) == CommentsClosedFrom(s, 1)

\* The tokens of the first statement of a text, and whether more follows it.
FirstStatement(s) == UpToSemicolon(SqliteLex(s))

RECURSIVE AfterSemicolon(_)
AfterSemicolon(toks) ==
    IF toks = << >> THEN << >>
    ELSE IF Head(toks) = ";" THEN Tail(toks)
    ELSE AfterSemicolon(Tail(toks))

HasLaterStatement(s) ==
    \E i \in 1..Len(AfterSemicolon(SqliteLex(s))) :
       AfterSemicolon(SqliteLex(s))[i] # ";"

\* A statement the engine accepts: nothing at all, or one statement body.
StatementOk(toks) == toks = << >> \/ (Len(toks) = 1 /\ toks[1] \in Words)

\* A statement that compiles and breaks a constraint while it runs.
FailsAtRun(toks) == toks = << "f" >>

\* sqlite3's cursor.execute(text): "ok", or the sqlite3.Error it raises; a
\* statement is compiled before the rest of the text is looked at, and the
\* text is refused as a whole before anything runs.
EngineError(text) ==
    IF ~StatementOk(FirstStatement(text)) THEN "OperationalError"
    ELSE IF HasLaterStatement(text) THEN "ProgrammingError"
    ELSE IF FailsAtRun(FirstStatement(text)) THEN "IntegrityError"
    ELSE "ok"

\* Rows the statement adds to the database when the engine runs it.
RowsAdded(toks) == IF toks \in {<< "a" >>, << "f" >>} THEN 1 ELSE 0

\* What stays in the database of the rows a statement added when it then
\* fails: the except clause of execute_query (lines 111-113) leaves the
\* open transaction as it is.
RowsKept(toks) == RowsAdded(toks)

EngineEffect(text) ==
    CASE EngineError(text) = "ok" -> RowsAdded(FirstStatement(text))
      [] EngineError(text) = "IntegrityError" -> RowsKept(FirstStatement(text))
      [] OTHER -> 0

NoOutcome == [kind |-> "none", error |-> "none", rows |-> "none"]

\* DatabaseConnector.__init__ has connected; nothing was executed yet.
DbInit ==
    /\ query = << >>
    /\ ntokens = 0
    /\ phase = "input"
    /\ db_rows = 0
    /\ db_before = 0
    /\ nexec = 0
    /\ outcome = NoOutcome
    /\ prior_error = FALSE

\* The caller puts the statement text together.
type_token ==
    /\ phase = "input"
    /\ ntokens < MaxTokens
    /\ \E tok \in Tokens : query' = query \o tok
    /\ ntokens' = ntokens + 1
    /\ UNCHANGED << phase, db_rows, db_before, nexec, outcome, prior_error,
                    llm_vars, pipe_vars >>

(***************************************************************************)
(* What the except clause of execute_query (line 111) catches: sqlite3's   *)
(* own exceptions.  pd.read_sql_query reports a failed statement as        *)
(* pandas.errors.DatabaseError, a subclass of OSError.                     *)
(***************************************************************************)
CaughtBySqlite3Error(exc) ==
    exc \in {"OperationalError", "ProgrammingError", "IntegrityError"}

\* The exception that reaches the try statement on each path.
RaisedOnPath(path, engine_error) ==
    IF engine_error = "ok" THEN "ok"
    ELSE IF path = "select" THEN "pandas.DatabaseError"
    ELSE engine_error

QueryPath(q) ==
    IF IsPragma(q) THEN "pragma" ELSE IF IsSelect(q) THEN "select" ELSE "write"

\* DatabaseConnector.execute_query, lines 49-117.
execute_query ==
    /\ phase = "input"
    /\ nexec < MaxExec
    /\ LET q == PreparedQuery(query)
           path == QueryPath(q)
           exc == RaisedOnPath(path, EngineError(q))
       IN  /\ db_rows' = db_rows + EngineEffect(q)
           /\ outcome' =
                 IF exc = "ok"
                 THEN [kind |-> "returned", error |-> "none",
                       rows |-> IF path = "write" THEN "message" ELSE "rows"]
                 ELSE IF CaughtBySqlite3Error(exc)
                 THEN [kind |-> "returned", error |-> exc, rows |-> "empty"]
                 ELSE [kind |-> "raised", error |-> exc, rows |-> "none"]
    /\ db_before' = db_rows
    /\ nexec' = nexec + 1
    /\ phase' = "executed"
    /\ UNCHANGED << query, ntokens, prior_error, llm_vars, pipe_vars >>

\* The caller goes on to its next statement.
next_query ==
    /\ phase = "executed"
    /\ query' = << >>
    /\ ntokens' = 0
    /\ phase' = "input"
    /\ outcome' = NoOutcome
    /\ prior_error' = (outcome.kind = "returned" /\ outcome.error # "none")
    /\ db_before' = db_rows
    /\ UNCHANGED << db_rows, nexec, llm_vars, pipe_vars >>

DbNext ==
    \/ type_token
    \/ execute_query
    \/ next_query

(***************************************************************************)
(* The statement gate (src/utils/query_processor.py, execute_sql_directly  *)
(* of src/app.py and src/gradio_app.py).  A statement is the sequence of   *)
(* its words; white space stands between two words, none around ";".       *)
(* "x" is any SQL text free of the deny-list's words.                      *)
(***************************************************************************)
MaxWords == 3        \* words a statement is made of
MaxStatements == 2   \* statements handed to the pipeline

SqlWords ==
    { "x", ";", "DROP", "TABLE", "UNION", "SELECT", "union", "select",
      "INTO", "OUTFILE", "DUMPFILE" }

\* re.IGNORECASE: the letters of a word compare without regard to case.
Upper(w) ==
    CASE w = "union" -> "UNION"
      [] w = "select" -> "SELECT"
      [] OTHER -> w

\* re.search(first \s+ second) and, for first = ";", re.search(; \s* second)
AdjacentWords(text, first, second) ==
    \E i \in 1..(Len(text) - 1) :
       Upper(text[i]) = first /\ Upper(text[i + 1]) = second

\* validate_query, lines 66-75: dangerous_patterns, searched anywhere in the text
MatchesDenyList(text) ==
    \/ \E i \in 1..(Len(text) - 2) :
          /\ text[i] = ";"
          /\ Upper(text[i + 1]) = "DROP"
          /\ Upper(text[i + 2]) = "TABLE"
    \/ AdjacentWords(text, "UNION", "SELECT")
    \/ AdjacentWords(text, "INTO", "OUTFILE")
    \/ AdjacentWords(text, "INTO", "DUMPFILE")

NotReceived == [text |-> << >>, via |-> "none"]

GateInit ==
    /\ statement = << >>
    /\ verdict = "unchecked"
    /\ gateway_received = NotReceived
    /\ nstatements = 0

\* The LLM reply's statement (or the caller's) is put together word by word.
type_word ==
    /\ gateway_received = NotReceived
    /\ verdict = "unchecked"
    /\ nstatements < MaxStatements
    /\ Len(statement) < MaxWords
    /\ \E w \in SqlWords : statement' = Append(statement, w)
    /\ UNCHANGED << verdict, gateway_received, nstatements, llm_vars, db_vars, chat_vars, prompt_vars, clean_vars, extract_vars, conn_vars,
                    gradio_vars, e2e_vars >>

(***************************************************************************)
(* QueryProcessor.validate_query, lines 50-92: the deny-list first, then   *)
(* the engine's opinion (EXPLAIN QUERY PLAN, PRAGMA table_info).  No code  *)
(* of the repository calls it; a caller that does is free to go on.        *)
(***************************************************************************)
validate_query ==
    /\ statement # << >>
    /\ verdict = "unchecked"
    /\ gateway_received = NotReceived
    /\ \E engine_accepts \in BOOLEAN :
          verdict' = IF MatchesDenyList(statement) THEN "rejected"
                     ELSE IF engine_accepts THEN "accepted" ELSE "rejected"
    /\ UNCHANGED << statement, gateway_received, nstatements, llm_vars, db_vars, chat_vars, prompt_vars, clean_vars, extract_vars, conn_vars,
                    gradio_vars, e2e_vars >>

\* QueryProcessor.execute_query (line 109) and execute_sql_directly (app.py
\* line 152, gradio_app.py line 66) hand every statement on.
PassesGate(text) == TRUE

\* QueryProcessor.execute_query, lines 94-115
QueryProcessor_execute_query ==
    /\ statement # << >>
    /\ gateway_received = NotReceived
    /\ PassesGate(statement)
    /\ gateway_received' = [text |-> statement, via |-> "QueryProcessor"]
    /\ UNCHANGED << statement, verdict, nstatements, llm_vars, db_vars, chat_vars, prompt_vars, clean_vars, extract_vars, conn_vars,
                    gradio_vars, e2e_vars >>

\* execute_sql_directly, app.py lines 145-155 (the connector is there)
execute_sql_directly ==
    /\ statement # << >>
    /\ gateway_received = NotReceived
    /\ PassesGate(statement)
    /\ gateway_received' = [text |-> statement, via |-> "execute_sql_directly"]
    /\ UNCHANGED << statement, verdict, nstatements, llm_vars, db_vars, chat_vars, prompt_vars, clean_vars, extract_vars, conn_vars,
                    gradio_vars, e2e_vars >>

\* The pipeline turns to its next statement.
next_statement ==
    /\ \/ gateway_received # NotReceived
       \/ verdict = "rejected"
    /\ statement' = << >>
    /\ verdict' = "unchecked"
    /\ gateway_received' = NotReceived
    /\ nstatements' = nstatements + 1
    /\ UNCHANGED << llm_vars, db_vars, chat_vars, prompt_vars, clean_vars, extract_vars, conn_vars,
                    gradio_vars, e2e_vars >>

GateNext ==
    \/ type_word
    \/ validate_query
    \/ QueryProcessor_execute_query
    \/ execute_sql_directly
    \/ next_statement

(***************************************************************************)
(* Prompt construction (src/llm/prompt_builder.py).  A message is a role   *)
(* and a content; the user's k-th query and the LLM's reply to it are both *)
(* written k, the system text with the schema in it is written 0.          *)
(***************************************************************************)
MAX_HISTORY_LENGTH == 10
MaxTurns == 12       \* queries sent in one session

\* build_system_message: the instructions with self.schema embedded
SystemContent == 0

build_system_message == [role |-> "system", content |-> SystemContent]

build_user_message(q) == [role |-> "user", content |-> q]

build_assistant_message(c) == [role |-> "assistant", content |-> c]

\* A window that keeps one entry too few.
LastEntriesShort(h, n) ==
    IF Len(h) < n THEN h ELSE SubSeq(h, Len(h) - n + 2, Len(h))

\* conversation_history[-n:] for n > 0
LastEntries(h, n) ==
    IF Len(h) <= n THEN h ELSE SubSeq(h, Len(h) - n + 1, Len(h))

\* A builder that forgets the new user turn.
build_messages_no_query(q, history) ==
    << build_system_message >>
       \o LastEntries(history, MAX_HISTORY_LENGTH * 2)

\* PromptBuilder.build_messages, lines 72-95
build_messages(q, history) ==
    << build_system_message >>
       \o LastEntries(history, MAX_HISTORY_LENGTH * 2)
       \o << build_user_message(q) >>

(***************************************************************************)
(* build_messages under a caller that holds any history of user turns and  *)
(* user/assistant pairs; the entry at position i has content i and the new *)
(* query is one more than the length of the history.                       *)
(***************************************************************************)
MaxHistory == 22     \* entries of the history given to build_messages

PromptInit ==
    /\ conversation_history = << >>
    /\ built = << >>

\* The conversation goes on by a user turn that got no stored reply ...
add_user_turn ==
    /\ built = << >>
    /\ Len(conversation_history) + 1 <= MaxHistory
    /\ conversation_history' =
          Append(conversation_history,
                 build_user_message(Len(conversation_history) + 1))
    /\ UNCHANGED << built, llm_vars, db_vars, gate_vars, chat_vars, clean_vars, extract_vars, conn_vars,
                    gradio_vars, e2e_vars >>

\* ... or by a user turn and the assistant's reply to it.
add_turn_pair ==
    /\ built = << >>
    /\ Len(conversation_history) + 2 <= MaxHistory
    /\ conversation_history' =
          conversation_history
             \o << build_user_message(Len(conversation_history) + 1),
                   build_assistant_message(Len(conversation_history) + 2) >>
    /\ UNCHANGED << built, llm_vars, db_vars, gate_vars, chat_vars, clean_vars, extract_vars, conn_vars,
                    gradio_vars, e2e_vars >>

\* prompt_builder.build_messages(query, conversation_history)
call_build_messages ==
    /\ built = << >>
    /\ built' = build_messages(Len(conversation_history) + 1, conversation_history)
    /\ UNCHANGED << conversation_history, llm_vars, db_vars, gate_vars, chat_vars, clean_vars, extract_vars, conn_vars,
                    gradio_vars, e2e_vars >>

\* The caller has sent the list and lets it go.
drop_messages ==
    /\ built # << >>
    /\ built' = << >>
    /\ UNCHANGED << conversation_history, llm_vars, db_vars, gate_vars, chat_vars, clean_vars, extract_vars, conn_vars,
                    gradio_vars, e2e_vars >>

PromptNext ==
    \/ add_user_turn
    \/ add_turn_pair
    \/ call_build_messages
    \/ drop_messages

(***************************************************************************)
(* The Send handler of the Streamlit front-end (src/app.py, lines 385-431) *)
(* and process_user_query (lines 158-257).                                 *)
(***************************************************************************)
RECURSIVE FormattedHistory(_)
\* process_user_query, lines 176-182: user turns, and the assistant turns
\* that carry "raw_content"
FormattedHistory(h) ==
    IF h = << >> THEN << >>
    ELSE LET msg == Head(h) IN
         (IF msg.role = "user"
             THEN << build_user_message(msg.content) >>
          ELSE IF msg.role = "assistant" /\ msg.raw_content # 0
             THEN << build_assistant_message(msg.raw_content) >>
          ELSE << >>)
         \o FormattedHistory(Tail(h))

\* What llm_api.generate_response gives process_user_query.
LlmOutcomes == {"raises", "none", "empty", "not_text", "text"}

\* What extract_sql_from_response finds in a reply.
SqlOutcomes == {"sql", "no_sql"}

\* How db_connector.execute_query ends for the extracted statement.
ExecOutcomes == {"ok", "error", "raises", "no_connection"}

\* execute_sql_directly without its try statement: the exception is lost.
ExecErrorUncaught(exec) ==
    CASE exec = "ok" -> ""
      [] exec = "error" -> "no such table: t"
      [] exec = "raises" -> ""
      [] exec = "no_connection" -> "No database connection"

\* execute_sql_directly, lines 145-155: the error it returns ("" for None)
ExecError(exec) ==
    CASE exec = "ok" -> ""
      [] exec = "error" -> "no such table: t"
      [] exec = "raises" -> "Execution failed on sql"
      [] exec = "no_connection" -> "No database connection"

\* execute_sql_directly: the rows it returns
ExecRows(exec) == IF exec \in {"ok", "error"} THEN "dataframe" ELSE "none"

NoResponseData ==
    [success |-> FALSE, error |-> "", llm_response |-> 0,
     parsed_response |-> FALSE, sql_query |-> FALSE, query_results |-> "absent"]

Failure(msg, reply, parsed, sql) ==
    [success |-> FALSE, error |-> msg, llm_response |-> reply,
     parsed_response |-> parsed, sql_query |-> sql, query_results |-> "absent"]

\* The dictionary process_user_query returns, lines 188-257; reply is the
\* number of the LLM's reply.
ProcessUserQueryResult(llm, sql, exec, reply) ==
    CASE llm = "raises" ->
            Failure("LLM request timed out. Try a simpler query or break this into smaller steps.",
                    0, FALSE, FALSE)
      [] llm \in {"none", "empty"} ->
            Failure("Failed to generate response from LLM", 0, FALSE, FALSE)
      [] llm = "not_text" ->
            Failure("Error processing query: " \o "expected string or bytes-like object",
                    0, FALSE, FALSE)
      [] llm = "text" /\ sql = "no_sql" ->
            Failure("Could not extract SQL query from LLM response", reply, TRUE, FALSE)
      [] llm = "text" /\ sql = "sql" /\ ExecError(exec) # "" ->
            Failure("SQL execution error: " \o ExecError(exec), reply, TRUE, TRUE)
      [] OTHER ->
            [success |-> TRUE, error |-> "", llm_response |-> reply,
             parsed_response |-> TRUE, sql_query |-> TRUE,
             query_results |-> ExecRows(exec)]

\* A process_user_query whose last except clause does not clear the flag.
ProcessingFlagKeptOnException(llm, sql, exec) == llm = "not_text"

\* st.session_state.processing_query when process_user_query returns: each
\* return path clears it just before its return statement.
ProcessingFlagOnReturn(llm, sql, exec) ==
    CASE llm = "raises" -> FALSE                                \* line 198
      [] llm \in {"none", "empty"} -> FALSE                     \* line 245
      [] llm = "not_text" -> FALSE                              \* line 253
      [] llm = "text" /\ sql = "no_sql" -> FALSE                \* line 237
      [] llm = "text" /\ sql = "sql" /\ ExecError(exec) # "" -> FALSE   \* line 219
      [] OTHER -> FALSE                                         \* line 228

ChatInit ==
    /\ st_chat_history = << >>
    /\ processing_query = FALSE
    /\ messages = << >>
    /\ response_data = NoResponseData
    /\ chat_pc = "idle"
    /\ nturns = 0

\* main, lines 385-395: Send with a non-empty query appends the user turn.
send_button ==
    /\ chat_pc = "idle"
    /\ nturns < MaxTurns
    /\ nturns' = nturns + 1
    /\ st_chat_history' =
          Append(st_chat_history,
                 [role |-> "user", content |-> nturns + 1, raw_content |-> 0])
    /\ response_data' = NoResponseData
    /\ chat_pc' = "sent"
    /\ UNCHANGED << processing_query, messages, llm_vars, db_vars, gate_vars, prompt_vars, clean_vars, extract_vars, conn_vars,
                    gradio_vars, e2e_vars >>

\* process_user_query, lines 168-185: the flag is set and the prompt built.
process_user_query_call ==
    /\ chat_pc = "sent"
    /\ processing_query' = TRUE
    /\ messages' = build_messages(nturns, FormattedHistory(st_chat_history))
    /\ chat_pc' = "llm"
    /\ UNCHANGED << st_chat_history, response_data, nturns,
                    llm_vars, db_vars, gate_vars, prompt_vars, clean_vars, extract_vars, conn_vars,
                    gradio_vars, e2e_vars >>

\* process_user_query, lines 187-257: the LLM call, extraction, execution
\* and the return; every return path clears the flag.
process_user_query_return ==
    /\ chat_pc = "llm"
    /\ \E llm \in LlmOutcomes, sql \in SqlOutcomes, exec \in ExecOutcomes :
          /\ response_data' = ProcessUserQueryResult(llm, sql, exec, nturns)
          /\ processing_query' = ProcessingFlagOnReturn(llm, sql, exec)
    /\ chat_pc' = "returned"
    /\ UNCHANGED << st_chat_history, messages, nturns,
                    llm_vars, db_vars, gate_vars, prompt_vars, clean_vars, extract_vars, conn_vars,
                    gradio_vars, e2e_vars >>

\* main, lines 400-431: the assistant turn is appended, with "raw_content"
\* when the invocation succeeded, and the script is run again.
handle_response ==
    /\ chat_pc = "returned"
    /\ st_chat_history' =
          Append(st_chat_history,
                 [role |-> "assistant", content |-> 0,
                  raw_content |-> IF response_data.success
                                  THEN response_data.llm_response ELSE 0])
    /\ messages' = << >>
    /\ chat_pc' = "idle"
    /\ UNCHANGED << processing_query, response_data, nturns,
                    llm_vars, db_vars, gate_vars, prompt_vars, clean_vars, extract_vars, conn_vars,
                    gradio_vars, e2e_vars >>

ChatNext ==
    \/ send_button
    \/ process_user_query_call
    \/ process_user_query_return
    \/ handle_response

(***************************************************************************)
(* GeminiAPI._clean_sql_query (src/llm/gemini_api.py, lines 170-201) on    *)
(* the texts of the gateway model.  The letter "P" is a PRAGMA statement   *)
(* body ("PRAGMA name"): the word PRAGMA, white space and an argument.     *)
(***************************************************************************)
\* query.upper().count("PRAGMA")
CountPragma(s) == Cardinality({i \in 1..Len(s) : s[i] = "P"})

\* The places where re.split's pattern PRAGMA\s+[^;]+; matches first: from
\* the first PRAGMA that has a ";" after it up to that ";" (0: no match).
PragmaMatchStart(s) ==
    LET starts == {i \in 1..Len(s) :
                      s[i] = "P" /\ \E j \in (i + 1)..Len(s) : s[j] = ";"}
    IN  IF starts = {} THEN 0
        ELSE CHOOSE i \in starts : \A k \in starts : i <= k

PragmaMatchEnd(s) ==
    LET i == PragmaMatchStart(s)
        ends == {j \in (i + 1)..Len(s) : s[j] = ";"}
    IN  CHOOSE j \in ends : \A k \in ends : j <= k

\* non_empty_parts[0].strip() of lines 190-193, << >> when there is no part
FirstPragmaPart(s) ==
    IF PragmaMatchStart(s) = 0 THEN Strip(s)
    ELSE LET leading == SubSeq(s, 1, PragmaMatchStart(s) - 1)
         IN  IF Strip(leading) # << >> THEN Strip(leading)
             ELSE SubSeq(s, PragmaMatchStart(s), PragmaMatchEnd(s))

\* GeminiAPI._clean_sql_query, lines 170-201
CleanSqlQuery(text) ==
    LET q == StripBlockComments(StripLineComments(text))
    IN  IF CountPragma(q) > 1 /\ FirstPragmaPart(q) # << >>
        THEN FirstPragmaPart(q)
        ELSE IF HasSemicolon(q) /\ Strip(UpToSemicolon(q)) # << >>
        THEN Strip(UpToSemicolon(q)) \o << ";" >>
        ELSE q

CleanInit ==
    /\ sql_query = << >>
    /\ sql_twice = << >>

\* sql_query = self._clean_sql_query(text)
clean_sql_query ==
    /\ phase = "input"
    /\ sql_query' = CleanSqlQuery(query)
    /\ phase' = "cleaned"
    /\ UNCHANGED << sql_twice, query, ntokens, db_rows, db_before, nexec,
                    outcome, prior_error, llm_vars, gate_vars, chat_vars, prompt_vars,
                    extract_vars, conn_vars, gradio_vars, e2e_vars >>

\* the result is cleaned once more
clean_sql_query_again ==
    /\ phase = "cleaned"
    /\ sql_twice' = CleanSqlQuery(sql_query)
    /\ phase' = "recleaned"
    /\ UNCHANGED << sql_query, query, ntokens, db_rows, db_before, nexec,
                    outcome, prior_error, llm_vars, gate_vars, chat_vars, prompt_vars,
                    extract_vars, conn_vars, gradio_vars, e2e_vars >>

CleanNext ==
    \/ type_token
    \/ clean_sql_query
    \/ clean_sql_query_again

(***************************************************************************)
(* GeminiAPI.extract_sql_from_response (src/llm/gemini_api.py, lines       *)
(* 116-168).  In a reply "#" is a fence (three backticks), "q" the letters *)
(* sql (the tag when they follow a fence, a word elsewhere), "S" a SELECT  *)
(* statement on one line, "W" a WITH ... SELECT statement on one line.     *)
(***************************************************************************)
MaxResponse == 6     \* characters a reply is made of

ResponseChars == {"#", "q", "S", "W", "\n", ";"}

RECURSIVE FindFrom(_, _, _)
\* s.find(sep, i): the first place at or after i where sep stands, 0 if none
FindFrom(s, sep, i) ==
    IF i + Len(sep) - 1 > Len(s) THEN 0
    ELSE IF SubSeq(s, i, i + Len(sep) - 1) = sep THEN i
    ELSE FindFrom(s, sep, i + 1)

RECURSIVE Split(_, _)
\* s.split(sep)
Split(s, sep) ==
    LET k == FindFrom(s, sep, 1)
    IN  IF k = 0 THEN << s >>
        ELSE << SubSeq(s, 1, k - 1) >>
                \o Split(SubSeq(s, k + Len(sep), Len(s)), sep)

SqlFence == << "#", "q" >>
Fence == << "#" >>

\* A reader that never sees the sql tag.
ContainsSqlFenceNever(r) == FALSE

\* "```sql" in response
ContainsSqlFence(r) == FindFrom(r, SqlFence, 1) # 0

\* lines 128-132
ExtractTagged(r) ==
    CleanSqlQuery(Strip(Split(Split(r, SqlFence)[2], Fence)[1]))

\* re.search(r'SELECT|INSERT|UPDATE|DELETE|CREATE|ALTER|DROP|PRAGMA', ...)
HasSqlKeyword(t) == \E i \in 1..Len(t) : t[i] \in {"S", "W"}

\* lines 136-143: the parts inside code blocks, in order (the second,
\* fourth, ... piece of the split)
KeywordBlocks(r) ==
    LET parts == Split(r, Fence)
    IN  {i \in 1..Len(parts) : i % 2 = 0 /\ HasSqlKeyword(Strip(parts[i]))}

ExtractFenced(r) ==
    LET parts == Split(r, Fence)
        first == CHOOSE i \in KeywordBlocks(r) :
                    \A j \in KeywordBlocks(r) : i <= j
    IN  CleanSqlQuery(Strip(parts[first]))

\* line_upper.startswith(keyword) for a keyword of sql_keywords
StartsWithKeyword(line) == Strip(line) # << >> /\ Head(Strip(line)) = "S"

RECURSIVE ScanLines(_, _)
\* lines 153-163: the lines collected into sql_lines
ScanLines(lines, in_sql) ==
    IF lines = << >> THEN << >>
    ELSE LET line == Head(lines) IN
         IF StartsWithKeyword(line)
            THEN << line >> \o ScanLines(Tail(lines), TRUE)
         ELSE IF in_sql /\ Strip(line) # << >>
            THEN << line >> \o ScanLines(Tail(lines), TRUE)
         ELSE IF in_sql
            THEN ScanLines(Tail(lines), FALSE)
         ELSE ScanLines(Tail(lines), FALSE)

RECURSIVE Join(_)
\* '\n'.join(lines)
Join(lines) ==
    IF lines = << >> THEN << >>
    ELSE IF Len(lines) = 1 THEN lines[1]
    ELSE lines[1] \o << "\n" >> \o Join(Tail(lines))

\* lines 149-168
ExtractPlain(r) ==
    LET sql_lines == ScanLines(Split(r, << "\n" >>), FALSE)
    IN  IF sql_lines # << >> THEN CleanSqlQuery(Strip(Join(sql_lines)))
        ELSE << >>

\* GeminiAPI.extract_sql_from_response, lines 116-168
ExtractSql(r) ==
    IF ContainsSqlFence(r) THEN ExtractTagged(r)
    ELSE IF FindFrom(r, Fence, 1) # 0 /\ KeywordBlocks(r) # {}
         THEN ExtractFenced(r)
    ELSE ExtractPlain(r)

ExtractInit ==
    /\ response_text = << >>
    /\ extracted = << >>
    /\ extract_done = FALSE

\* The LLM writes its reply.
type_response ==
    /\ ~extract_done
    /\ Len(response_text) < MaxResponse
    /\ \E c \in ResponseChars : response_text' = Append(response_text, c)
    /\ UNCHANGED << extracted, extract_done, llm_vars, db_vars, gate_vars,
                    chat_vars, prompt_vars, clean_vars, conn_vars,
                    gradio_vars, e2e_vars >>

\* sql_query = llm_api.extract_sql_from_response(response)
extract_sql_from_response ==
    /\ ~extract_done
    /\ extracted' = ExtractSql(response_text)
    /\ extract_done' = TRUE
    /\ UNCHANGED << response_text, llm_vars, db_vars, gate_vars,
                    chat_vars, prompt_vars, clean_vars, conn_vars,
                    gradio_vars, e2e_vars >>

ExtractNext ==
    \/ type_response
    \/ extract_sql_from_response

(***************************************************************************)
(* The connections of a DatabaseConnector (src/database/connector.py,      *)
(* lines 13-47).  The handle is kept in threading.local: every thread has  *)
(* its own attribute conn.  Thread 1 constructs the connector.             *)
(***************************************************************************)
MaxConnections == 3  \* sqlite3.connect calls made on the file

ConnIds == 1..MaxConnections

\* self._local.conn is None, or was never assigned: the code reads the two
\* alike (lines 38 and 44)
NoConn == 0

NotOpened == [open |-> FALSE, foreign_keys |-> FALSE, opened |-> FALSE]

\* sqlite3.connect followed by PRAGMA foreign_keys = ON
FreshConnection == [open |-> TRUE, foreign_keys |-> TRUE, opened |-> TRUE]

Opened == {c \in ConnIds : connections[c].opened}

OpenConnections == {c \in ConnIds : connections[c].open}

\* hasattr(self._local, 'conn') and self._local.conn
HasConn(t) == local_conn[t] \in ConnIds

\* The statements execute_query may be given, as far as connections go.
StatementKinds == {"select", "write", "invalid", "foreign_keys_off",
                   "foreign_keys_on"}

\* DatabaseConnector.__init__, lines 20-23, run by thread 1
ConnInit ==
    /\ local_conn = [t \in Threads |-> IF t = 1 THEN 1 ELSE NoConn]
    /\ connections = [c \in ConnIds |-> IF c = 1 THEN FreshConnection
                                        ELSE NotOpened]
    /\ disconnected = FALSE

\* The connections after thread t has run connect(): a new connection is
\* in the thread's slot.  The connection that was there is not closed by
\* the assignment; it stays open until the interpreter collects it.
Connected(t) ==
    [connections EXCEPT ![Cardinality(Opened) + 1] = FreshConnection]

\* DatabaseConnector.connect, lines 25-34
connect(t) ==
    /\ Cardinality(Opened) < MaxConnections
    /\ connections' = Connected(t)
    /\ local_conn' = [local_conn EXCEPT ![t] = Cardinality(Opened) + 1]
    /\ disconnected' = FALSE
    /\ UNCHANGED << llm_vars, db_vars, gate_vars, chat_vars, prompt_vars,
                    clean_vars, extract_vars, gradio_vars, e2e_vars >>

\* DatabaseConnector.disconnect, lines 36-40
disconnect(t) ==
    /\ connections' =
          IF HasConn(t)
          THEN [connections EXCEPT ![local_conn[t]].open = FALSE]
          ELSE connections
    /\ local_conn' = [local_conn EXCEPT ![t] = NoConn]
    /\ disconnected' = TRUE
    /\ UNCHANGED << llm_vars, db_vars, gate_vars, chat_vars, prompt_vars,
                    clean_vars, extract_vars, gradio_vars, e2e_vars >>

\* The interpreter's garbage collector closes a connection no thread's
\* slot refers to any more.
garbage_collect ==
    /\ \E c \in OpenConnections :
          /\ \A t \in Threads : local_conn[t] # c
          /\ connections' = [connections EXCEPT ![c].open = FALSE]
    /\ UNCHANGED << local_conn, disconnected >>
    /\ UNCHANGED << llm_vars, db_vars, gate_vars, chat_vars, prompt_vars,
                    clean_vars, extract_vars, gradio_vars, e2e_vars >>

\* The conn property, lines 42-47: the thread's connection, opened first
\* when the thread has none.
ConnOf(t) == IF HasConn(t) THEN local_conn[t] ELSE Cardinality(Opened) + 1

\* The connections once the conn property has been read by thread t.
ConnectionsWith(t) == IF HasConn(t) THEN connections ELSE Connected(t)

\* What the engine does to the connection's foreign-key switch.
ForeignKeysAfter(kind, enforced) ==
    CASE kind = "foreign_keys_off" -> FALSE
      [] kind = "foreign_keys_on" -> TRUE
      [] OTHER -> enforced

\* DatabaseConnector.execute_query (lines 49-117), seen from the
\* connection: the statement runs on self.conn.
execute_query_on_conn(t) ==
    /\ HasConn(t) \/ Cardinality(Opened) < MaxConnections
    /\ \E kind \in StatementKinds :
          connections' =
             [ConnectionsWith(t) EXCEPT ![ConnOf(t)].foreign_keys =
                 ForeignKeysAfter(kind, @)]
    /\ local_conn' = [local_conn EXCEPT ![t] = ConnOf(t)]
    /\ disconnected' = FALSE
    /\ UNCHANGED << llm_vars, db_vars, gate_vars, chat_vars, prompt_vars,
                    clean_vars, extract_vars, gradio_vars, e2e_vars >>

\* get_table_names, get_table_info, get_foreign_keys, get_sample_data
\* (lines 119-202): fixed read-only statements on self.conn.
introspect(t) ==
    /\ HasConn(t) \/ Cardinality(Opened) < MaxConnections
    /\ connections' = ConnectionsWith(t)
    /\ local_conn' = [local_conn EXCEPT ![t] = ConnOf(t)]
    /\ disconnected' = FALSE
    /\ UNCHANGED << llm_vars, db_vars, gate_vars, chat_vars, prompt_vars,
                    clean_vars, extract_vars, gradio_vars, e2e_vars >>

ConnNext ==
    \/ \E t \in Threads :
          \/ connect(t)
          \/ disconnect(t)
          \/ execute_query_on_conn(t)
          \/ introspect(t)
    \/ garbage_collect

(***************************************************************************)
(* The Gradio front-end's chat handler (src/gradio_app.py).  The user's    *)
(* k-th query and the LLM's reply to it are both written k.                *)
(***************************************************************************)
MaxQueries == 5      \* queries sent to the Gradio front-end

\* How a process_query invocation ends after the prompt is built: the LLM
\* call raises (line 102), gives no response (106), no SQL is extracted
\* (137), the statement fails (123) or runs (125).
GradioOutcomes == {"llm_raises", "no_response", "no_sql", "sql_error", "ok"}

RECURSIVE GradioFormattedFrom(_, _, _)
\* process_query, lines 85-89: row i of the chat box gives a user message,
\* and an assistant message when chat_history has an entry at index i
GradioFormattedFrom(rows, stored, i) ==
    IF i > Len(rows) THEN << >>
    ELSE << build_user_message(rows[i]) >>
            \o (IF i <= Len(stored)
                THEN << build_assistant_message(stored[i]) >>
                ELSE << >>)
            \o GradioFormattedFrom(rows, stored, i + 1)

GradioFormattedHistory(rows, stored) == GradioFormattedFrom(rows, stored, 1)

\* The module is loaded and a database has been connected.
GradioInit ==
    /\ chatbot = << >>
    /\ gradio_chat_history = << >>
    /\ gradio_messages = << >>
    /\ db_connector = TRUE
    /\ nqueries = 0

\* process_query, lines 71-140, for the (nqueries + 1)-th query
process_query ==
    /\ nqueries < MaxQueries
    /\ nqueries' = nqueries + 1
    /\ chatbot' = Append(chatbot, nqueries + 1)
    /\ IF ~db_connector
       THEN /\ gradio_messages' = << >>
            /\ UNCHANGED gradio_chat_history
       ELSE /\ gradio_messages' =
                  build_messages(nqueries + 1,
                      GradioFormattedHistory(chatbot, gradio_chat_history))
            /\ \E how \in GradioOutcomes :
                  gradio_chat_history' =
                     IF how = "ok"
                     THEN Append(gradio_chat_history, nqueries + 1)
                     ELSE gradio_chat_history
    /\ UNCHANGED db_connector
    /\ UNCHANGED << llm_vars, db_vars, gate_vars, chat_vars, prompt_vars,
                    clean_vars, extract_vars, conn_vars, e2e_vars >>

\* The Clear Chat button, line 262: the chat box is emptied
clear_chat ==
    /\ chatbot # << >>
    /\ chatbot' = << >>
    /\ gradio_messages' = << >>
    /\ UNCHANGED << gradio_chat_history, db_connector, nqueries >>
    /\ UNCHANGED << llm_vars, db_vars, gate_vars, chat_vars, prompt_vars,
                    clean_vars, extract_vars, conn_vars, e2e_vars >>

\* reset_state, lines 159-182
reset_state ==
    /\ chatbot # << >> \/ db_connector
    /\ db_connector' = FALSE
    /\ gradio_chat_history' = << >>
    /\ chatbot' = << >>
    /\ gradio_messages' = << >>
    /\ UNCHANGED nqueries
    /\ UNCHANGED << llm_vars, db_vars, gate_vars, chat_vars, prompt_vars,
                    clean_vars, extract_vars, conn_vars, e2e_vars >>

\* initialize_db_connection, lines 23-55 (the upload is a database)
initialize_db_connection ==
    /\ ~db_connector
    /\ db_connector' = TRUE
    /\ gradio_messages' = << >>
    /\ UNCHANGED << chatbot, gradio_chat_history, nqueries >>
    /\ UNCHANGED << llm_vars, db_vars, gate_vars, chat_vars, prompt_vars,
                    clean_vars, extract_vars, conn_vars, e2e_vars >>

GradioNext ==
    \/ process_query
    \/ clear_chat
    \/ reset_state
    \/ initialize_db_connection

(***************************************************************************)
(* One query from the LLM's reply to the returned result: the part of      *)
(* process_user_query after generate_response (src/app.py, lines 204-249), *)
(* with ResponseFormatter.parse_llm_response (src/utils/formatter.py),     *)
(* extract_sql_from_response and the database gateway on the reply's own   *)
(* text.  The characters are the ones of the extraction model; "t" is a    *)
(* word of prose.  None of the section titles parse_llm_response looks for *)
(* ("SQL Concept:", "Note:", ...) can be written with them.                *)
(***************************************************************************)
MaxReply == 5        \* characters a reply is made of
MaxReplies == 2      \* replies processed in a session

\* What a reply is put together from.
ReplyPieces ==
    { << "#", "q" >>, << "#" >>, << "S" >>, << ";" >>, << "\n" >>, << "t" >> }

\* parse_llm_response, lines 84-87: the text before the first fence
ParsedExplanation(r) ==
    IF FindFrom(r, Fence, 1) # 0 THEN Strip(Split(r, Fence)[1]) ELSE << >>

\* parse_llm_response, lines 104-110: the text after the first block
ParsedEducationalNotes(r) ==
    IF FindFrom(r, Fence, 1) # 0 /\ Len(Split(r, Fence)) > 2
    THEN Strip(Split(r, Fence)[3])
    ELSE << >>

\* execute_sql_directly with a connector (src/app.py, lines 145-155): the
\* statement whose rows come back, and the error ("" when there is none);
\* an exception of execute_query is turned into its text (line 155).
ExecuteSqlDirectly(sql) ==
    LET q == PreparedQuery(sql)
        exc == RaisedOnPath(QueryPath(q), EngineError(q))
    IN  IF exc = "ok"
        THEN [rows_of |-> FirstStatement(q), error |-> ""]
        ELSE [rows_of |-> << >>, error |-> exc]

\* A reader that takes every extraction result for a statement.
SqlFoundAlways(sql) == TRUE

\* line 212: if sql_query
SqlFound(sql) == sql # << >>

NoSqlMessage == "Could not extract SQL query from LLM response"

ExecutionFailureMessage(error) == "SQL execution error: " \o error

\* The statements process_user_query hands to execute_sql_directly.
HandedFor(r) ==
    IF r # << >> /\ SqlFound(ExtractSql(r)) THEN << ExtractSql(r) >>
    ELSE << >>

\* The result of process_user_query, lines 204-249, for the reply r; a key
\* the returned dictionary does not have is written empty.
TurnResult(r) ==
    LET sql == ExtractSql(r)
        ran == ExecuteSqlDirectly(sql)
        absent == [success |-> FALSE, error |-> "", llm_response |-> << >>,
                   explanation |-> << >>, educational_notes |-> << >>,
                   sql_query |-> << >>, query_results |-> << >>]
        parsed == [absent EXCEPT !.llm_response = r,
                                 !.explanation = ParsedExplanation(r),
                                 !.educational_notes =
                                     ParsedEducationalNotes(r)]
    IN  IF r = << >>
        THEN [absent EXCEPT
                 !.error = "Failed to generate response from LLM"]
        ELSE IF ~SqlFound(sql)
        THEN [parsed EXCEPT !.error = NoSqlMessage]
        ELSE IF ran.error # ""
        THEN [parsed EXCEPT !.error = ExecutionFailureMessage(ran.error),
                            !.sql_query = sql]
        ELSE [parsed EXCEPT !.success = TRUE, !.sql_query = sql,
                            !.query_results = ran.rows_of]

NoTurnResult ==
    [success |-> FALSE, error |-> "none", llm_response |-> << >>,
     explanation |-> << >>, educational_notes |-> << >>,
     sql_query |-> << >>, query_results |-> << >>]

TurnInit ==
    /\ reply_text = << >>
    /\ turn_pc = "typing"
    /\ turn_result = NoTurnResult
    /\ handed = << >>
    /\ prior_no_sql = FALSE
    /\ nreplies = 0

\* The LLM writes its reply to the query.
type_reply ==
    /\ turn_pc = "typing"
    /\ nreplies < MaxReplies
    /\ \E piece \in ReplyPieces :
          /\ Len(reply_text) + Len(piece) <= MaxReply
          /\ reply_text' = reply_text \o piece
    /\ UNCHANGED << turn_pc, turn_result, handed, prior_no_sql, nreplies >>
    /\ UNCHANGED << llm_vars, db_vars, gate_vars, chat_vars, prompt_vars,
                    clean_vars, extract_vars, conn_vars, gradio_vars >>

\* process_user_query from line 204 on, for the reply generate_response
\* returned
process_user_query ==
    /\ turn_pc = "typing"
    /\ nreplies < MaxReplies
    /\ handed' = HandedFor(reply_text)
    /\ turn_result' = TurnResult(reply_text)
    /\ turn_pc' = "returned"
    /\ nreplies' = nreplies + 1
    /\ UNCHANGED << reply_text, prior_no_sql >>
    /\ UNCHANGED << llm_vars, db_vars, gate_vars, chat_vars, prompt_vars,
                    clean_vars, extract_vars, conn_vars, gradio_vars >>

\* main, lines 400-431: the answer is stored and the page is drawn again;
\* the next query can be sent
next_turn ==
    /\ turn_pc = "returned"
    /\ prior_no_sql' = (turn_result.error = NoSqlMessage)
    /\ reply_text' = << >>
    /\ handed' = << >>
    /\ turn_result' = NoTurnResult
    /\ turn_pc' = "typing"
    /\ UNCHANGED nreplies
    /\ UNCHANGED << llm_vars, db_vars, gate_vars, chat_vars, prompt_vars,
                    clean_vars, extract_vars, conn_vars, gradio_vars >>

TurnNext ==
    \/ type_reply
    \/ process_user_query
    \/ next_turn

(***************************************************************************)
(* Specifications.                                                         *)
(***************************************************************************)
vars == << llm_vars, db_vars, pipe_vars >>

Init == LlmInit /\ DbInit /\ GateInit /\ ChatInit /\ PromptInit
        /\ CleanInit /\ ExtractInit /\ ConnInit /\ GradioInit /\ TurnInit

Next == LlmNext

Spec == Init /\ [][Next]_vars

SpecSingle == Init /\ [][SingleNext]_vars

SpecPool == Init /\ [][PoolNext]_vars

SpecDB == Init /\ [][DbNext]_vars

SpecGate == Init /\ [][GateNext]_vars

SpecChat == Init /\ [][ChatNext]_vars

SpecPrompt == Init /\ [][PromptNext]_vars

SpecClean == Init /\ [][CleanNext]_vars

SpecExtract == Init /\ [][ExtractNext]_vars

SpecConn == Init /\ [][ConnNext]_vars

SpecGradio == Init /\ [][GradioNext]_vars

SpecTurn == Init /\ [][TurnNext]_vars

\* The steps of a running generate_response call of thread t; the network
\* answers or the timeout of session.post (line 86) ends the wait.
RequestSteps(t) ==
    \/ lock_acquire(t)
    \/ read_key(t)
    \/ calc_index(t)
    \/ store_index(t)
    \/ send_request(t)
    \/ network_reply(t)
    \/ handle_reply(t)

\* One caller whose running call is never halted for ever.
SpecSingleLive == Init /\ [][SingleNext]_vars /\ WF_vars(RequestSteps(1))

(***************************************************************************)
(* Properties of the LLM client.                                           *)
(***************************************************************************)
AllKeys == {api_keys[i] : i \in 0..(PoolSize - 1)}

\* C1: a call of a single caller whose attempts 1..k-1 fail and whose
\* attempt k (k <= N) brings content has made exactly k network attempts
\* when it returns, has advanced the cursor by k modulo N, and returns the
\* content of attempt k.
C1_SuccessAtAttemptK ==
    \A t \in Threads :
       (pc[t] = "done" /\ result[t].kind = "content" /\ ~foreign[t]) =>
          /\ nsent[t] = Len(errors[t]) + 1
          /\ nsent[t] = attempt[t] + 1
          /\ nsent[t] <= PoolSize
          /\ \A i \in 1..Len(errors[t]) : errors[t][i] = i
          /\ current_key_index = (start_index[t] + nsent[t]) % PoolSize
          /\ response[t].kind = "ok"
          /\ result[t].content = response[t].content

\* C1 witness: the last credential of the pool succeeded after every other failed.
C1_Witness ==
    /\ PoolSize > 1
    /\ pc[1] = "done"
    /\ result[1].kind = "content"
    /\ nsent[1] = PoolSize
    /\ Len(errors[1]) = PoolSize - 1

\* C2: a call whose attempts all fail, for any mix of failure kinds, makes
\* exactly N attempts and then returns the failure value; no exception
\* leaves generate_response.
C2_ExhaustionReturnsFailure ==
    \A t \in Threads :
       (pc[t] = "done" /\ result[t].kind # "content") =>
          /\ nsent[t] = PoolSize
          /\ result[t] = ReturnedNone

\* C3: the read of the cursor and its increment are one atomic step: the
\* cursor is the number of completed _get_next_key calls modulo N (the
\* initial cursor is 0), the call that is j-th in lock order holds the
\* credential at position j - 1 modulo N, and the cursor stays in 0..N-1.
C3_RotationAtomic ==
    /\ current_key_index \in 0..(PoolSize - 1)
    /\ current_key_index = ncompleted
    /\ \A t \in Threads :
          pc[t] \in {"calc", "store", "send"} => api_key[t] = api_keys[ticket[t]]
    /\ \A t, u \in Threads :
          (t # u /\ pc[t] \in {"read", "calc", "store"}) =>
             pc[u] \notin {"read", "calc", "store"}

\* C3 witness: one caller has been handed the last credential of the pool
\* while another, holding the lock, has read the first one again.
C3_Witness ==
    \E t, u \in Threads :
       /\ t # u
       /\ pc[t] = "send"
       /\ api_key[t] = api_keys[PoolSize - 1]
       /\ pc[u] = "store"
       /\ api_key[u] = api_keys[0]
       /\ ticket[u] = 0

\* C4: when request B is issued while request A is in Sending and A's
\* reply arrives after B has completed, A's reply is not returned as the
\* result of the call and is not stored in the session's chat history.
C4_StaleReplyDiscarded ==
    /\ \A t \in Threads :
          (pc[t] = "done" /\ stale[t]) => result[t].kind # "content"
    /\ \A i \in 1..Len(chat_history) : ~chat_history[i].late

\* C5: a call that reports failure has used every credential of the pool
\* in one of its own attempts, also with concurrent callers.
C5_FailureMeansAllKeysTried ==
    \A t \in Threads :
       (pc[t] = "done" /\ result[t] = ReturnedNone) => used[t] = AllKeys

\* C6: at an attempt i < N each failing outcome (no choices, empty choices,
\* malformed JSON, malformed choice shape, non-2xx, timeout) records one
\* error and leads to attempt i + 1; the call neither returns nor raises.
C6_FailedAttemptRotates ==
    [][ \A t \in Threads :
           ( /\ pc[t] = "got"
             /\ response[t].kind \in FailureKinds
             /\ attempt[t] + 1 < PoolSize
             /\ pc'[t] # "got" ) =>
              /\ pc'[t] = "acquire"
              /\ errors'[t] = Append(errors[t], attempt[t] + 1)
              /\ attempt'[t] = attempt[t] + 1 ]_vars

\* C7: at most one request of the session is in Sending.
C7_AtMostOneInFlight ==
    Cardinality({t \in Threads : Sending(t)}) <= 1

\* C8: cancel_current_request, called in any state, leaves no request
\* handle of the session set and changes neither the cursor nor the lock.
C8_CancelClearsHandle ==
    [][ \A t \in Threads :
           cancel_current_request(t) =>
              /\ \A u \in Threads : current_request'[u] # "session"
              /\ current_key_index' = current_key_index
              /\ lock' = lock ]_vars

(***************************************************************************)
(* Properties of the database gateway.                                     *)
(***************************************************************************)
\* C9: execute_query returns its (rows, error, time) result for every
\* statement, on the read paths and on the write path: an engine error is
\* reported in the error field and never raised to the caller.
C9_ExecuteNeverRaises ==
    phase = "executed" => outcome.kind = "returned"

\* C10: of an input made of one or more semicolon-separated statements
\* with (closed) comments, exactly the first statement is executed: the
\* database changes by the effect of that statement and of no later one,
\* and an error is reported only when the first statement itself is in
\* error.
C10_OnlyFirstStatementRuns ==
    (phase = "executed" /\ CommentsClosed(query) /\ FirstStatement(query) # << >>) =>
       LET first == FirstStatement(query) IN
          /\ StatementOk(first) => db_rows = db_before + RowsAdded(first)
          /\ ~StatementOk(first) => db_rows = db_before
          /\ (StatementOk(first) /\ ~FailsAtRun(first)) => outcome.error = "none"

(***************************************************************************)
(* Properties of the pipeline's statement gate.                            *)
(***************************************************************************)
\* C11: a statement that matches a deny-list pattern is never handed to
\* DatabaseConnector.execute_query, neither by QueryProcessor.execute_query
\* nor by the front-ends' execute_sql_directly.
C11_DenyListedNeverReachesGateway ==
    gateway_received # NotReceived => ~MatchesDenyList(gateway_received.text)

(***************************************************************************)
(* Properties of the pipeline and of prompt construction.                  *)
(***************************************************************************)
\* C12: what process_user_query returns is either a success result with the
\* SQL, the parsed response and the result rows, or a failure result with
\* a non-empty error message, whatever the LLM and the execution did.
C12_ResultIsSuccessOrFailure ==
    chat_pc = "returned" =>
       \/ /\ response_data.success
          /\ response_data.sql_query
          /\ response_data.parsed_response
          /\ response_data.llm_response # 0
          /\ response_data.query_results = "dataframe"
       \/ /\ ~response_data.success
          /\ response_data.error # ""
          /\ response_data.query_results = "absent"

\* C12 witness: an invocation whose statement failed in the engine has returned.
C12_Witness ==
    /\ chat_pc = "returned"
    /\ ~response_data.success
    /\ response_data.sql_query
    /\ nturns > 1

\* C13: after an invocation that failed, the history from which later
\* prompts are built is what it was before the query, or that extended by
\* one user turn followed by its assistant turn.
C13_NoHalfUpdatedHistory ==
    (chat_pc = "idle" /\ nturns > 0 /\ ~response_data.success) =>
       LET before == FormattedHistory(SubSeq(st_chat_history, 1,
                                             Len(st_chat_history) - 2))
           now == FormattedHistory(st_chat_history)
       IN  \/ now = before
           \/ /\ Len(now) = Len(before) + 2
              /\ SubSeq(now, 1, Len(before)) = before
              /\ now[Len(now) - 1].role = "user"
              /\ now[Len(now)].role = "assistant"

\* C14: the list build_messages returns starts with the system message,
\* ends with a user message that holds the new query, and has exactly one
\* system message (the history holds user and assistant turns only).
C14_SystemFirstQueryLast ==
    built # << >> =>
       /\ built[1] = build_system_message
       /\ built[Len(built)] =
             build_user_message(Len(conversation_history) + 1)
       /\ Len(built) >= 2
       /\ Cardinality({i \in 1..Len(built) : built[i].role = "system"}) = 1

\* C14 witness: a list was built from a history longer than the window.
C14_Witness ==
    /\ built # << >>
    /\ Len(conversation_history) = MAX_HISTORY_LENGTH * 2 + 1

\* C15: between the system message and the new user turn stand the last
\* min(len(history), 2 * MAX_HISTORY_LENGTH) history entries, in their
\* order; the list has at most 2 * MAX_HISTORY_LENGTH + 2 messages.
C15_WindowIsLastEntries ==
    built # << >> =>
       LET n == Len(conversation_history)
           k == IF n < MAX_HISTORY_LENGTH * 2 THEN n ELSE MAX_HISTORY_LENGTH * 2
       IN  /\ Len(built) = k + 2
           /\ Len(built) <= MAX_HISTORY_LENGTH * 2 + 2
           /\ \A i \in 1..k : built[1 + i] = conversation_history[n - k + i]

\* C15 witness: the two oldest entries of the history were dropped.
C15_Witness ==
    /\ built # << >>
    /\ Len(conversation_history) = MAX_HISTORY_LENGTH * 2 + 2
    /\ built[2] = conversation_history[3]

(***************************************************************************)
(* Properties of SQL cleaning.                                             *)
(***************************************************************************)
\* C16: for an input that contains a ";", _clean_sql_query returns the
\* first statement only: nothing stands after the first ";" of the result.
C16_CleanKeepsFirstStatementOnly ==
    (phase \in {"cleaned", "recleaned"} /\ HasSemicolon(query)) =>
       \A i \in 1..Len(sql_query) : sql_query[i] = ";" => i = Len(sql_query)

\* C17: _clean_sql_query is idempotent: cleaning its result again yields
\* the same text.
C17_CleanIdempotent ==
    phase = "recleaned" => sql_twice = sql_query

(***************************************************************************)
(* Properties of SQL extraction.  The fences of a reply are told by their  *)
(* places: the n-th fence, the text of a block from its opening fence to   *)
(* the next fence or to the end of the reply.                              *)
(***************************************************************************)
FencePlaces(r) == {i \in 1..Len(r) : r[i] = "#"}

TaggedPlaces(r) == {i \in FencePlaces(r) : i < Len(r) /\ r[i + 1] = "q"}

Least(S) == CHOOSE i \in S : \A j \in S : i <= j

\* The text from place i up to the next fence, or up to the end.
UpToNextFence(r, i) ==
    LET later == {j \in FencePlaces(r) : j >= i}
    IN  IF later = {} THEN SubSeq(r, i, Len(r))
        ELSE SubSeq(r, i, Least(later) - 1)

\* The opening fences of the reply's blocks: the first, third, ... fence.
OpeningFences(r) ==
    {i \in FencePlaces(r) :
        Cardinality({j \in FencePlaces(r) : j <= i}) % 2 = 1}

\* The opening fences of the blocks that hold a SQL statement keyword.
SqlBlocks(r) ==
    {i \in OpeningFences(r) : HasSqlKeyword(UpToNextFence(r, i + 1))}

\* C18: the three sources are used in strict priority: the first fence
\* tagged sql when there is one; else the first fenced block that holds a
\* SQL statement keyword; else the plain-line scan; and the result is
\* empty when there is no fence and no line starts with a SQL keyword.
C18_ExtractionPriority ==
    extract_done =>
       LET r == response_text IN
       /\ TaggedPlaces(r) # {} =>
             extracted =
                CleanSqlQuery(Strip(UpToNextFence(r, Least(TaggedPlaces(r)) + 2)))
       /\ (TaggedPlaces(r) = {} /\ SqlBlocks(r) # {}) =>
             extracted =
                CleanSqlQuery(Strip(UpToNextFence(r, Least(SqlBlocks(r)) + 1)))
       /\ (TaggedPlaces(r) = {} /\ SqlBlocks(r) = {}) =>
             extracted = ExtractPlain(r)
       /\ (FencePlaces(r) = {} /\ \A i \in 1..Len(r) : r[i] # "S") =>
             extracted = << >>

\* C18 witness: an untagged block with SQL and a plain SQL line stand
\* before the tagged fence, and the statement of the tagged fence is taken.
C18_Witness ==
    /\ extract_done
    /\ response_text = << "#", "S", "#", "#", "q", "W" >>
    /\ extracted = << "W" >>

(***************************************************************************)
(* Properties of the connector's connections.                              *)
(***************************************************************************)
\* C19: foreign-key enforcement is on for every open connection of the
\* connector, after the initial connect, after a reconnect and after any
\* statements run through execute_query.
C19_ForeignKeysStayOn ==
    \A c \in OpenConnections : connections[c].foreign_keys

\* C20: the session holds at most one open connection to the file, and
\* right after disconnect it holds none.
C20_AtMostOneConnection ==
    /\ Cardinality(OpenConnections) <= 1
    /\ disconnected => OpenConnections = {}

(***************************************************************************)
(* Properties of what generate_response reports.                           *)
(***************************************************************************)
\* The per-attempt failures a caller can read from the returned value:
\* None (line 114) and a content string (line 94) carry none.
ErrorsCarried(r) == IF r.kind = "aggregate" THEN r.content ELSE << >>

\* C22: when all N attempts of a call fail, the failure handed to the
\* caller carries the N per-attempt failures, one per attempt, in attempt
\* order.
C22_FailureCarriesAttemptErrors ==
    \A t \in Threads :
       (pc[t] = "done" /\ Len(errors[t]) = PoolSize) =>
          /\ \A i \in 1..PoolSize : errors[t][i] = i
          /\ ErrorsCarried(result[t]) = errors[t]

\* C23: the current-request handle belongs to its holder alone: starting a
\* request, finishing one or cancelling never changes the handle another
\* caller holds; and once a cancel has been issued for the session, from
\* whatever thread, no handle of the session is set.
C23_HandleIsSessionLocal ==
    [][ /\ \A t, u \in Threads :
              ( /\ t # u
                /\ \/ generate_response(t)
                   \/ send_request(t)
                   \/ handle_reply(t)
                   \/ cancel_current_request(t) ) =>
                 current_request'[u] = current_request[u]
        /\ last_cancel' # 0 =>
              \A u \in Threads : current_request'[u] # "session" ]_vars

(***************************************************************************)
(* Properties of the plain-line scan.                                      *)
(***************************************************************************)
\* The lines of a reply from the first line that starts with a SQL keyword
\* up to the first blank line after it (<< >> without a keyword line).
FirstRun(lines) ==
    LET starts == {i \in 1..Len(lines) : StartsWithKeyword(lines[i])}
    IN  IF starts = {} THEN << >>
        ELSE LET first == Least(starts)
                 blanks == {j \in (first + 1)..Len(lines) :
                               Strip(lines[j]) = << >>}
             IN  IF blanks = {} THEN SubSeq(lines, first, Len(lines))
                 ELSE SubSeq(lines, first, Least(blanks) - 1)

\* C25: for a reply without code fences the text returned is made of one
\* contiguous run of lines, from the first line that begins with a SQL
\* keyword to the first blank line after it; no later line is part of it.
C25_PlainScanIsOneRun ==
    (extract_done /\ FencePlaces(response_text) = {}) =>
       LET run == FirstRun(Split(response_text, << "\n" >>))
       IN  extracted = IF run = << >> THEN << >>
                       ELSE CleanSqlQuery(Strip(Join(run)))

(***************************************************************************)
(* Properties of the history window in the front-end's prompt.             *)
(***************************************************************************)
\* What build_messages put between the system message and the new query.
HistoryWindow(msgs) == SubSeq(msgs, 2, Len(msgs) - 1)

\* C27: the history window of the prompt is made of whole turn-pairs: it
\* starts with a user turn and alternates user, assistant, and every user
\* turn in it is followed by its assistant turn.
C27_WindowIsWholePairs ==
    chat_pc = "llm" =>
       LET w == HistoryWindow(messages)
       IN  /\ Len(w) % 2 = 0
           /\ \A i \in 1..Len(w) :
                 w[i].role = IF i % 2 = 1 THEN "user" ELSE "assistant"

(***************************************************************************)
(* Properties of the session's processing flag.                            *)
(***************************************************************************)
\* C29: processing_query is true while process_user_query runs and false
\* whenever it has returned, on every return path, so that the Send button
\* (disabled by the flag) is enabled after a finished query.
C29_FlagClearedOnReturn ==
    /\ chat_pc = "llm" => processing_query
    /\ chat_pc \in {"returned", "idle"} => ~processing_query

\* C29 witness: an invocation has returned through its last except clause.
C29_Witness ==
    /\ chat_pc = "returned"
    /\ nturns > 1
    /\ response_data.error =
          "Error processing query: " \o "expected string or bytes-like object"

(***************************************************************************)
(* Properties of a session after an engine error.                          *)
(***************************************************************************)
\* C30: an engine error that execute_query reports is not fatal: the
\* database holds what it held before the failing statement, and a valid
\* statement that follows on the same session runs and returns its result
\* without error.
C30_EngineErrorNonFatal ==
    /\ ( /\ phase = "executed"
         /\ outcome.kind = "returned"
         /\ outcome.error # "none" ) => db_rows = db_before
    /\ ( /\ phase = "executed"
         /\ prior_error
         /\ EngineError(PreparedQuery(query)) = "ok" ) =>
          /\ outcome.kind = "returned"
          /\ outcome.error = "none"
          /\ db_rows = db_before + RowsAdded(FirstStatement(PreparedQuery(query)))

(***************************************************************************)
(* Properties of the life of a request.                                    *)
(***************************************************************************)
\* The state of the request a thread runs, read from where the thread is
\* and from what generate_response returned: content (line 94), None (line
\* 114) or an exception.  The code has no outcome of its own for a request
\* that was cancelled.
RequestState(where, returned) ==
    CASE where = "idle" -> "Idle"
      [] where = "done" /\ returned.kind = "content" -> "Succeeded"
      [] where = "done" -> "Failed"
      [] OTHER -> "Sending"

C26_EventuallyTerminal ==
    \A t \in Threads : InCall(t) ~> (pc[t] = "done")

(***************************************************************************)
(* Properties of the Gradio front-end's LLM history.                       *)
(***************************************************************************)
\* C28: in the list process_query builds for the LLM, the assistant
\* message placed after a user message is the raw reply that was produced
\* for that user message, whatever queries failed before.
C28_AssistantAnswersItsUser ==
    \A j \in 1..Len(gradio_messages) :
       gradio_messages[j].role = "assistant" =>
          /\ j > 1
          /\ gradio_messages[j - 1].role = "user"
          /\ gradio_messages[j].content = gradio_messages[j - 1].content


(***************************************************************************)
(* Properties of one query followed from the reply to the result.  A reply *)
(* of the plain shape is one block tagged sql that holds one SELECT        *)
(* statement, with prose after the closing fence and nothing before the    *)
(* opening one.                                                            *)
(***************************************************************************)
ClosingFence(r) == Least(FencePlaces(r) \ {1})

FencedStatement(r) == Strip(SubSeq(r, 3, ClosingFence(r) - 1))

TextAfterFence(r) == SubSeq(r, ClosingFence(r) + 1, Len(r))

PlainShape(r) ==
    /\ Cardinality(FencePlaces(r)) = 2
    /\ TaggedPlaces(r) = {1}
    /\ FencedStatement(r) \in { << "S" >>, << "S", ";" >> }
    /\ \A i \in 1..Len(TextAfterFence(r)) :
          TextAfterFence(r)[i] \in {"t", "\n"}
    /\ Strip(TextAfterFence(r)) # << >>

\* C21: when the reply is a block tagged sql that holds one statement,
\* followed by explanatory text, and the statement runs without error, the
\* returned result is a success whose sql_query is the fenced statement,
\* whose rows are the rows of that statement and whose explanation is the
\* text that follows the fence.
C21_EndToEndAnswer ==
    (turn_pc = "returned" /\ PlainShape(reply_text)
        /\ ExecuteSqlDirectly(FencedStatement(reply_text)).error = "") =>
       /\ turn_result.success
       /\ turn_result.sql_query = FencedStatement(reply_text)
       /\ turn_result.query_results = << "S" >>
       /\ turn_result.explanation = Strip(TextAfterFence(reply_text))

\* C24: when the LLM replied and extraction gives the empty string, no
\* statement is handed to the database and the result is a failure whose
\* message is not the message of a failed execution; the query after it is
\* processed as in a fresh session.
C24_NoSqlIsNonFatal ==
    /\ (turn_pc = "returned" /\ reply_text # << >>
           /\ ExtractSql(reply_text) = << >>) =>
          /\ handed = << >>
          /\ ~turn_result.success
          /\ turn_result.error = NoSqlMessage
          /\ turn_result.llm_response = reply_text
    /\ (turn_pc = "returned" /\ handed # << >> /\ ~turn_result.success) =>
          /\ turn_result.error # NoSqlMessage
          /\ turn_result.error =
                ExecutionFailureMessage(ExecuteSqlDirectly(handed[1]).error)
    /\ (turn_pc = "returned" /\ prior_no_sql
           /\ PlainShape(reply_text)) =>
          /\ turn_result.success
          /\ handed = << FencedStatement(reply_text) >>

\* The second reply of a session holds a fenced block without a statement,
\* after a first reply that gave no statement either.
C24_Witness ==
    /\ turn_pc = "returned"
    /\ prior_no_sql
    /\ FencePlaces(reply_text) # {}
    /\ ExtractSql(reply_text) = << >>
    /\ handed = << >>
    /\ turn_result.error = NoSqlMessage
====
